---- MODULE Spec2Model ----
(***************************************************************************)
(* Model of the Conan recipe PixiRetroConan (conanfile.py).                *)
(*                                                                         *)
(* One recipe object is run through the packaging pipeline                 *)
(*   config_options -> build_requirements -> build -> package              *)
(*   -> package_info                                                       *)
(* Every method of the recipe is one action.  An exception raised inside a *)
(* method ends the pipeline (pc = "aborted") with the assignments made     *)
(* before the raise kept and the later ones not made.                      *)
(*                                                                         *)
(* Python strings are TLA+ strings; f-string formatting is concatenation   *)
(* (\o), glob matching and reference parsing work on the characters.       *)
(* Python objects whose attributes can be absent (options after `del`,     *)
(* settings without build_type, cpp_info before assignment, the locals of  *)
(* package_info) are functions whose DOMAIN is the set of bound names.     *)
(***************************************************************************)
EXTENDS Naturals, Sequences, FiniteSets, TLC

VARIABLES
    settings,     \* self.settings: os, compiler, arch and (optionally) build_type
    options,      \* self.options: shared and (until deleted) fPIC
    requires,     \* references passed to self.build_requires, in call order
    cmake_calls,  \* CMake operations invoked by build(), in call order
    build_tree,   \* files present in the source/build folders after build()
    package_tree, \* files copied into the package folder by package()
    cpp_info,     \* self.cpp_info: the attributes assigned by package_info()
    error,        \* <<>> or <<method, exception>> of the exception that escaped
    pc            \* the pipeline step to run next, "done" or "aborted"

vars == <<settings, options, requires, cmake_calls, build_tree, package_tree,
          cpp_info, error, pc>>

\* Largest number of files the external build leaves behind in one run.
MaxFiles == 2

----------------------------------------------------------------------------
\* String helpers (Python str operations used by the recipe and by Conan).

EndsWith(s, suf) ==
    /\ Len(s) >= Len(suf)
    /\ SubSeq(s, Len(s) - Len(suf) + 1, Len(s)) = suf

\* fnmatch for the recipe's patterns: a leading "*" matches any prefix.
fnmatch(name, pattern) ==
    IF Len(pattern) >= 1 /\ SubSeq(pattern, 1, 1) = "*"
    THEN EndsWith(name, SubSeq(pattern, 2, Len(pattern)))
    ELSE name = pattern

\* Attribute assignment on a Python object: obj.name = value.
SetAttr(obj, name, value) ==
    [k \in (DOMAIN obj) \cup {name} |-> IF k = name THEN value ELSE obj[k]]

\* Attribute deletion: del obj.name.
DelAttr(obj, name) ==
    [k \in (DOMAIN obj) \ {name} |-> obj[k]]

\* settings.get_safe(name, default)
get_safe(s, name, default) ==
    IF name \in DOMAIN s THEN s[name] ELSE default

----------------------------------------------------------------------------
\* Class attributes.

build_subfolder == "build"

source_subfolder == "source"

\* options = {"shared": [True, False], "fPIC": [True, False]}
OptionSets == [{"shared", "fPIC"} -> BOOLEAN]

\* settings = "os", "compiler", "build_type", "arch"; build_type may be unset.
OsValues == {"Windows", "Linux", "Macos"}

BuildTypes == {"Debug", "Release", "RelWithDebInfo"}

SettingsValues ==
    { [os |-> o, compiler |-> "gcc", arch |-> "x86_64", build_type |-> b] :
        o \in OsValues, b \in BuildTypes }
    \cup
    { [os |-> o, compiler |-> "gcc", arch |-> "x86_64"] : o \in OsValues }

\* Files that may be present in the source and build folders after build().
Files ==
    { [dir |-> <<source_subfolder, "Include">>, name |-> "pixiretro.h"],
      [dir |-> <<build_subfolder, "lib">>, name |-> "PixiRetro.lib"],
      [dir |-> <<build_subfolder, "lib">>, name |-> "PixiRetrod.lib"],
      [dir |-> <<build_subfolder, "lib">>, name |-> "PixiRetro-static.lib"],
      [dir |-> <<build_subfolder, "lib">>, name |-> "PixiRetro.a"],
      [dir |-> <<build_subfolder, "bin">>, name |-> "PixiRetro.dll"],
      [dir |-> <<build_subfolder, "bin">>, name |-> "PixiRetrod.so"],
      [dir |-> <<build_subfolder, "bin">>, name |-> "PixiRetro.pdb"] }

BuildOutputs == { fs \in SUBSET Files : Cardinality(fs) <= MaxFiles }

NoAttrs == [k \in {} |-> <<>>]

\* The shape of the recipe's state.
TypeOK ==
    /\ DOMAIN settings \in {{"os", "compiler", "arch"},
                            {"os", "compiler", "arch", "build_type"}}
    /\ settings.os \in OsValues
    /\ "build_type" \in DOMAIN settings => settings.build_type \in BuildTypes
    /\ DOMAIN options \in {{"shared"}, {"shared", "fPIC"}}
    /\ \A k \in DOMAIN options : options[k] \in BOOLEAN
    /\ Len(requires) \in {0, 6}
    /\ cmake_calls \in {<<>>, <<"configure">>, <<"configure", "build">>}
    /\ build_tree \in BuildOutputs
    /\ \A f \in package_tree : f.dir[1] \in {"include", "lib", "bin"}
    /\ DOMAIN cpp_info \subseteq {"includedirs", "libs", "libdirs", "bindirs"}
    /\ error \in {<<>>, <<"build", "ConanException">>,
                  <<"package_info", "UnboundLocalError">>}
    /\ pc \in {"config_options", "build_requirements", "build", "package",
               "package_info", "done", "aborted"}

Init ==
    /\ settings \in SettingsValues
    /\ options \in OptionSets
    /\ requires = <<>>
    /\ cmake_calls = <<>>
    /\ build_tree = {}
    /\ package_tree = {}
    /\ cpp_info = NoAttrs
    /\ error = <<>>
    /\ pc = "config_options"

----------------------------------------------------------------------------
\* def config_options(self)

\* Variant: fPIC is switched off on Windows instead of being deleted.
config_options_DefaultsFPIC ==
    /\ pc = "config_options"
    /\ options' = IF settings.os = "Windows" THEN SetAttr(options, "fPIC", FALSE) ELSE options
    /\ pc' = "build_requirements"
    /\ UNCHANGED <<settings, requires, cmake_calls, build_tree, package_tree,
                   cpp_info, error>>

config_options ==
    /\ pc = "config_options"
    /\ options' = IF settings.os = "Windows" THEN DelAttr(options, "fPIC") ELSE options
    /\ pc' = "build_requirements"
    /\ UNCHANGED <<settings, requires, cmake_calls, build_tree, package_tree,
                   cpp_info, error>>

----------------------------------------------------------------------------
\* def build_requirements(self)

\* self.build_requires(ref): the reference is recorded after those before it.
build_requires(reqs, ref) == Append(reqs, ref)

\* Variant: sdl-image is required before sdl.
BuildRequirements_Reordered(reqs) ==
    LET r1 == build_requires(reqs, "tinyxml2/9.0.0")
        r2 == build_requires(r1, "opengl/system")
        r3 == build_requires(r2, "sdl-image/2.0.5@ianmurfinxyz/stable")
        r4 == build_requires(r3, "sdl/2.0.20@ianmurfinxyz/stable")
        r5 == build_requires(r4, "sdl-mixer/2.0.4@ianmurfinxyz/stable")
    IN  build_requires(r5, "sdl-ttf/2.0.18@ianmurfinxyz/stable")

BuildRequirements(reqs) ==
    LET r1 == build_requires(reqs, "tinyxml2/9.0.0")
        r2 == build_requires(r1, "opengl/system")
        r3 == build_requires(r2, "sdl/2.0.20@ianmurfinxyz/stable")
        r4 == build_requires(r3, "sdl-image/2.0.5@ianmurfinxyz/stable")
        r5 == build_requires(r4, "sdl-mixer/2.0.4@ianmurfinxyz/stable")
    IN  build_requires(r5, "sdl-ttf/2.0.18@ianmurfinxyz/stable")

build_requirements ==
    /\ pc = "build_requirements"
    /\ requires' = BuildRequirements(requires)
    /\ pc' = "build"
    /\ UNCHANGED <<settings, options, cmake_calls, build_tree, package_tree,
                   cpp_info, error>>

----------------------------------------------------------------------------
\* def build(self)

\* What the external build tool did: both phases succeed, or one of them raises.
CMakeOutcomes == {"ok", "configure_failed", "build_failed"}

\* Variant: build() swallows the exception of a failed phase.
AfterBuild_Swallows(outcome) == "package"

\* The step after build(): an exception of either phase is not caught.
AfterBuild(outcome) == IF outcome = "ok" THEN "package" ELSE "aborted"

build ==
    /\ pc = "build"
    /\ \E outcome \in CMakeOutcomes, out \in BuildOutputs :
        /\ cmake_calls' = IF outcome = "configure_failed"
                          THEN <<"configure">>
                          ELSE <<"configure", "build">>
        /\ build_tree' = out
        /\ error' = IF outcome = "ok" THEN <<>>
                    ELSE <<"build", "ConanException">>
        /\ pc' = AfterBuild(outcome)
    /\ UNCHANGED <<settings, options, requires, package_tree, cpp_info>>

----------------------------------------------------------------------------
\* def package(self)

\* Variant: import/static libraries (*.lib) are copied to bin.
ArtifactRules_LibToBin ==
    << [pattern |-> "*.h",   dst |-> "include", src |-> source_subfolder, keep_path |-> TRUE],
       [pattern |-> "*.lib", dst |-> "bin",     src |-> "", keep_path |-> FALSE],
       [pattern |-> "*.a",   dst |-> "lib",     src |-> "", keep_path |-> FALSE],
       [pattern |-> "*.exp", dst |-> "lib",     src |-> "", keep_path |-> FALSE],
       [pattern |-> "*.dll", dst |-> "bin",     src |-> "", keep_path |-> FALSE],
       [pattern |-> "*.so",  dst |-> "bin",     src |-> "", keep_path |-> FALSE],
       [pattern |-> "*.pdb", dst |-> "bin",     src |-> "", keep_path |-> FALSE] >>

\* The arguments of the seven self.copy calls, in call order
\* (src defaults to "", keep_path defaults to True).
ArtifactRules ==
    << [pattern |-> "*.h",   dst |-> "include", src |-> source_subfolder, keep_path |-> TRUE],
       [pattern |-> "*.lib", dst |-> "lib",     src |-> "", keep_path |-> FALSE],
       [pattern |-> "*.a",   dst |-> "lib",     src |-> "", keep_path |-> FALSE],
       [pattern |-> "*.exp", dst |-> "lib",     src |-> "", keep_path |-> FALSE],
       [pattern |-> "*.dll", dst |-> "bin",     src |-> "", keep_path |-> FALSE],
       [pattern |-> "*.so",  dst |-> "bin",     src |-> "", keep_path |-> FALSE],
       [pattern |-> "*.pdb", dst |-> "bin",     src |-> "", keep_path |-> FALSE] >>

\* A file lies under the folder src ("" is the root of the tree).
Under(f, src) == src = "" \/ (Len(f.dir) >= 1 /\ f.dir[1] = src)

\* The file's folder relative to src.
RelDir(f, src) == IF src = "" THEN f.dir ELSE Tail(f.dir)

\* self.copy(pattern, dst, src, keep_path): the package files one rule produces.
copy(tree, rule) ==
    { [dir  |-> <<rule.dst>> \o (IF rule.keep_path THEN RelDir(f, rule.src) ELSE <<>>),
       name |-> f.name] :
        f \in { g \in tree : Under(g, rule.src) /\ fnmatch(g.name, rule.pattern) } }

\* The rules applied in listed order; a later copy overwrites an equal path.
RECURSIVE CopyAll(_, _, _)
CopyAll(tree, rules, pkg) ==
    IF rules = <<>> THEN pkg
    ELSE CopyAll(tree, Tail(rules), pkg \cup copy(tree, Head(rules)))

package ==
    /\ pc = "package"
    /\ package_tree' = CopyAll(build_tree, ArtifactRules, package_tree)
    /\ pc' = "package_info"
    /\ UNCHANGED <<settings, options, requires, cmake_calls, build_tree,
                   cpp_info, error>>

----------------------------------------------------------------------------
\* def package_info(self)

\* Variant: the debug postfix is never added.
Postfix_Never(build_type) == ""

\* postfix = "d" if build_type == "Debug" else ""
Postfix(build_type) == IF build_type = "Debug" THEN "d" ELSE ""

\* Variant: the marker is added for static instead of shared linkage.
Static_Inverted(shared) == IF shared THEN "" ELSE "-static"

\* static = "-static" if self.options.shared else ""
Static(shared) == IF shared THEN "-static" ELSE ""

\* extension = "so" if self.options.shared else "a"
Extension(shared) == IF shared THEN "so" ELSE "a"

\* Variant: the dynamic library is named when the marker is present.
WindowsLibs_Dll(static, postfix) ==
    << "PixiRetro" \o static \o postfix \o (IF static = "" THEN ".lib" ELSE ".dll") >>

\* Variant: the same name is listed for the library and for its companion.
WindowsLibs_Twice(static, postfix) ==
    << "PixiRetro" \o static \o postfix \o ".lib",
       "PixiRetro" \o static \o postfix \o ".lib" >>

\* [ f"PixiRetro{static}{postfix}.lib" ]
WindowsLibs(static, postfix) == << "PixiRetro" \o static \o postfix \o ".lib" >>

\* [ f"PixiRetro{static}{postfix}.{extension}" ]
LinuxLibs(static, postfix, extension) ==
    << "PixiRetro" \o static \o postfix \o "." \o extension >>

\* self.cpp_info.libdirs = ['lib']; self.cpp_info.bindirs = ['bin']
LibAndBinDirs(info) == SetAttr(SetAttr(info, "libdirs", <<"lib">>), "bindirs", <<"bin">>)

\* The body of package_info: <<cpp_info afterwards, exception or "">>.
\* `locals` holds the local variables bound so far; reading an unbound
\* local raises UnboundLocalError and ends the method there.
PackageInfo(sett, opts, info) ==
    LET info1  == SetAttr(info, "includedirs", <<"include">>)
        build_type == get_safe(sett, "build_type", "Release")
        locals1 == [postfix |-> Postfix(build_type)]
    IN  IF sett.os = "Windows" THEN
            LET locals2 == SetAttr(locals1, "static", Static(opts.shared))
                info2 == SetAttr(info1, "libs",
                                 WindowsLibs(locals2.static, locals2.postfix))
            IN  <<LibAndBinDirs(info2), "">>
        ELSE IF sett.os = "Linux" THEN
            LET locals2 == SetAttr(locals1, "extension", Extension(opts.shared))
            IN  IF "static" \in DOMAIN locals2 THEN
                    LET info2 == SetAttr(info1, "libs",
                                    LinuxLibs(locals2.static, locals2.postfix,
                                              locals2.extension))
                    IN  <<LibAndBinDirs(info2), "">>
                ELSE <<info1, "UnboundLocalError">>
        ELSE <<LibAndBinDirs(info1), "">>

package_info ==
    /\ pc = "package_info"
    /\ LET res == PackageInfo(settings, options, cpp_info)
       IN  /\ cpp_info' = res[1]
           /\ error' = IF res[2] = "" THEN error ELSE <<"package_info", res[2]>>
           /\ pc' = IF res[2] = "" THEN "done" ELSE "aborted"
    /\ UNCHANGED <<settings, options, requires, cmake_calls, build_tree,
                   package_tree>>

----------------------------------------------------------------------------

Next ==
    \/ config_options
    \/ build_requirements
    \/ build
    \/ package
    \/ package_info

Spec == Init /\ [][Next]_vars

----------------------------------------------------------------------------
\* Observations used to state the properties.

\* str.find: position of the first occurrence of the character c, 0 if none.
RECURSIVE FindFrom(_, _, _)
FindFrom(s, c, i) ==
    IF i > Len(s) THEN 0
    ELSE IF SubSeq(s, i, i) = c THEN i
    ELSE FindFrom(s, c, i + 1)

Find(s, c) == FindFrom(s, c, 1)

\* str.rfind: position of the last occurrence of the character c, 0 if none.
RECURSIVE RFindFrom(_, _, _)
RFindFrom(s, c, i) ==
    IF i < 1 THEN 0
    ELSE IF SubSeq(s, i, i) = c THEN i
    ELSE RFindFrom(s, c, i - 1)

RFind(s, c) == RFindFrom(s, c, Len(s))

\* The text after the last "." of a file name ("" if there is none).
Ext(name) ==
    LET p == RFind(name, ".")
    IN  IF p = 0 THEN "" ELSE SubSeq(name, p + 1, Len(name))

\* The file name without its last "." and what follows it.
Stem(name) ==
    LET p == RFind(name, ".")
    IN  IF p = 0 THEN name ELSE SubSeq(name, 1, p - 1)

Contains(s, sub) ==
    \E i \in 1..(Len(s) + 1) :
        i + Len(sub) - 1 <= Len(s) /\ SubSeq(s, i, i + Len(sub) - 1) = sub

StartsWith(s, pre) == Len(s) >= Len(pre) /\ SubSeq(s, 1, Len(pre)) = pre

StripPrefix(s, pre) ==
    IF StartsWith(s, pre) THEN SubSeq(s, Len(pre) + 1, Len(s)) ELSE s

BaseName == "PixiRetro"

Marker == "-static"

\* What a library file name holds between base name (and marker) and extension.
SuffixOf(name) == StripPrefix(StripPrefix(Stem(name), BaseName), Marker)

InSeq(x, seq) == \E i \in 1..Len(seq) : seq[i] = x

\* package_info has been run (to its end, or to the exception it raised).
RanPackageInfo ==
    \/ pc = "done"
    \/ pc = "aborted" /\ error # <<>> /\ error[1] = "package_info"

HasLibs == "libs" \in DOMAIN cpp_info

\* name/version of a reference name/version[@user/channel]
NameVersion(ref) ==
    LET p == Find(ref, "@")
    IN  IF p = 0 THEN ref ELSE SubSeq(ref, 1, p - 1)

\* the version field of a reference
Version(ref) ==
    LET nv == NameVersion(ref)
        p  == Find(nv, "/")
    IN  IF p = 0 THEN "" ELSE SubSeq(nv, p + 1, Len(nv))

\* One exact version: present, and neither a range [...] nor a wildcard.
ExactVersion(v) ==
    /\ v # ""
    /\ \A c \in {"[", "]", "*", ",", "<", ">", "~", "^", " "} : ~Contains(v, c)

----------------------------------------------------------------------------
\* Properties.

\* C1: on Windows, once config_options has run the option set does not hold
\* fPIC, in any later pipeline state, whatever the initial option values.
C1_NoFPICOnWindows ==
    (settings.os = "Windows" /\ pc # "config_options")
        => ("fPIC" \notin DOMAIN options /\ "shared" \in DOMAIN options)

C1_Witness ==
    /\ settings.os = "Windows"
    /\ pc = "done"
    /\ DOMAIN options = {"shared"}

\* C2: on Linux with build_type Debug and shared set, package_info completes
\* and libs is one entry with extension so and the debug suffix.
C2_LinuxDebugShared ==
    (/\ RanPackageInfo
     /\ settings.os = "Linux"
     /\ "build_type" \in DOMAIN settings /\ settings.build_type = "Debug"
     /\ options.shared)
        => (/\ pc = "done"
            /\ HasLibs
            /\ Len(cpp_info.libs) = 1
            /\ Ext(cpp_info.libs[1]) = "so"
            /\ SuffixOf(cpp_info.libs[1]) = "d")

\* C3 (as claimed): on Windows every emitted name has extension lib when
\* shared is false and dll when shared is true, and holds the marker only
\* when shared is true.
C3_Original ==
    (settings.os = "Windows" /\ pc = "done")
        => (/\ HasLibs
            /\ \A i \in 1..Len(cpp_info.libs) :
                /\ Ext(cpp_info.libs[i]) = (IF options.shared THEN "dll" ELSE "lib")
                /\ Contains(cpp_info.libs[i], Marker) => options.shared)

\* C3 (amended): on Windows every emitted name has extension lib whether or
\* not shared is set, and holds the marker only when shared is true.
C3_WindowsAlwaysLib ==
    (settings.os = "Windows" /\ pc = "done")
        => (/\ HasLibs
            /\ \A i \in 1..Len(cpp_info.libs) :
                /\ Ext(cpp_info.libs[i]) = "lib"
                /\ Contains(cpp_info.libs[i], Marker) => options.shared)

C3_Witness ==
    /\ settings.os = "Windows"
    /\ pc = "done"
    /\ options.shared
    /\ HasLibs
    /\ Len(cpp_info.libs) = 1
    /\ Ext(cpp_info.libs[1]) = "lib"
    /\ Contains(cpp_info.libs[1], Marker)

\* C4: every entry of an emitted libs list holds the suffix d right after
\* base name and marker when build_type is Debug, and holds no suffix when
\* build_type is Release or unset.
C4_DebugSuffix ==
    (RanPackageInfo /\ HasLibs)
        => \A i \in 1..Len(cpp_info.libs) :
            /\ ("build_type" \in DOMAIN settings /\ settings.build_type = "Debug")
                => SuffixOf(cpp_info.libs[i]) = "d"
            /\ ("build_type" \notin DOMAIN settings \/ settings.build_type = "Release")
                => SuffixOf(cpp_info.libs[i]) = ""

C4_Witness ==
    /\ pc = "done"
    /\ "build_type" \in DOMAIN settings /\ settings.build_type = "Debug"
    /\ HasLibs
    /\ Len(cpp_info.libs) = 1
    /\ EndsWith(Stem(cpp_info.libs[1]), "d")

\* C5: an emitted libs list holds no entry twice.
C5_NoDuplicateLibs ==
    HasLibs
        => \A i, j \in 1..Len(cpp_info.libs) :
            i # j => cpp_info.libs[i] # cpp_info.libs[j]

C5_Witness ==
    /\ pc = "done"
    /\ settings.os = "Windows"
    /\ options.shared
    /\ HasLibs
    /\ Len(cpp_info.libs) >= 1

\* C6: on Windows with build_type Release and shared false, package_info
\* completes and libs is exactly the one name PixiRetro.lib.
C6_WindowsReleaseStatic ==
    (/\ RanPackageInfo
     /\ settings.os = "Windows"
     /\ "build_type" \in DOMAIN settings /\ settings.build_type = "Release"
     /\ ~options.shared)
        => (/\ pc = "done"
            /\ HasLibs
            /\ cpp_info.libs = <<"PixiRetro.lib">>
            /\ ~Contains(cpp_info.libs[1], Marker)
            /\ Ext(cpp_info.libs[1]) # "dll")

C6_Witness ==
    /\ pc = "done"
    /\ settings.os = "Windows"
    /\ "build_type" \in DOMAIN settings /\ settings.build_type = "Release"
    /\ ~options.shared
    /\ HasLibs

BuildFailed == error # <<>> /\ error[1] = "build"

C8_BuildFailureAborts ==
    BuildFailed
        => (/\ pc = "aborted"
            /\ DOMAIN cpp_info = {}
            /\ package_tree = {})

C8_Witness ==
    /\ BuildFailed
    /\ cmake_calls = <<"configure", "build">>
    /\ build_tree # {}
    /\ pc = "aborted"

\* C9: every name listed in libs is matched by an artifact rule, every rule
\* matching it copies into a directory listed in libdirs, and when the build
\* produced the file the package folder holds it directly in such a directory.
C9_LibsFoundInLibdirs ==
    (pc = "done" /\ HasLibs)
        => (/\ "libdirs" \in DOMAIN cpp_info
            /\ \A i \in 1..Len(cpp_info.libs) :
                LET n == cpp_info.libs[i]
                IN  /\ \E k \in 1..Len(ArtifactRules) :
                            fnmatch(n, ArtifactRules[k].pattern)
                    /\ \A k \in 1..Len(ArtifactRules) :
                            fnmatch(n, ArtifactRules[k].pattern)
                                => InSeq(ArtifactRules[k].dst, cpp_info.libdirs)
                    /\ \A f \in build_tree :
                            f.name = n
                                => \E g \in package_tree :
                                    /\ g.name = n
                                    /\ Len(g.dir) = 1
                                    /\ InSeq(g.dir[1], cpp_info.libdirs))

C9_Witness ==
    /\ pc = "done"
    /\ HasLibs
    /\ cpp_info.libs = <<"PixiRetro-static.lib">>
    /\ [dir |-> <<"lib">>, name |-> "PixiRetro-static.lib"] \in package_tree

\* C10: whenever package_info has been run, cpp_info holds
\* includedirs = ["include"], libdirs = ["lib"] and bindirs = ["bin"].
C10_FixedDirs ==
    RanPackageInfo
        => (/\ {"includedirs", "libdirs", "bindirs"} \subseteq DOMAIN cpp_info
            /\ cpp_info.includedirs = <<"include">>
            /\ cpp_info.libdirs = <<"lib">>
            /\ cpp_info.bindirs = <<"bin">>)

====
